---------------------------- MODULE Spec2Model ----------------------------
(***************************************************************************)
(* Model of the title-to-image matching engine of update_image_urls.py:   *)
(* the filename decoder (title_to_encoded_stem / stem_to_title), the      *)
(* table builder (build_title_to_file_map) and the resolver               *)
(* (find_image_for_title).                                                *)
(*                                                                         *)
(* A Python str is modelled as a sequence of Unicode code points, a bytes *)
(* object as a sequence of numbers in 0..255.  A dict is modelled as a    *)
(* sequence of [key, path] records in insertion order, which is the       *)
(* order Python's dict iterates in.                                       *)
(***************************************************************************)
EXTENDS Integers, Sequences, FiniteSets, TLC

(***************************************************************************)
(* Bounds of the model.                                                    *)
(***************************************************************************)
MaxStemLen == 5

MaxTitleLen == 3

MaxFiles == 2

MaxSlugLen == 4

MaxBatches == 2

MaxExtraRows == 1

(***************************************************************************)
(* Characters the source names literally.                                  *)
(***************************************************************************)
Underscore == 95

Space == 32

Hyphen == 45

(***************************************************************************)
(* Generic helpers on sequences.                                           *)
(***************************************************************************)
SeqsUpTo(A, n) == UNION {[1..k -> A] : k \in 0..n}

Range(s) == {s[i] : i \in 1..Len(s)}

\* str.startswith: p is a prefix of s
StartsWith(s, p) == Len(p) <= Len(s) /\ SubSeq(s, 1, Len(p)) = p

RECURSIVE Concat(_)
Concat(ss) == IF ss = <<>> THEN <<>> ELSE Head(ss) \o Concat(Tail(ss))

(***************************************************************************)
(* Python's character classes and case mapping.                            *)
(***************************************************************************)
\* str.isspace(), which is also what str.strip(), str.split() and the
\* regular expression class \s use on a str
IsSpace(c) ==
    \/ c \in 9..13
    \/ c \in 28..32
    \/ c \in {133, 160, 5760, 8232, 8233, 8239, 8287, 12288}
    \/ c \in 8192..8202

\* str.isalnum() on the characters the model draws from: ASCII digits and
\* letters, the Greek capitals and small letters, the superscript and
\* subscript digits, and U+10000 (a letter)
IsAlnum(c) ==
    \/ c \in 48..57
    \/ c \in 65..90
    \/ c \in 97..122
    \/ c \in (913..937) \ {930}
    \/ c \in 945..969
    \/ c \in {178, 179, 185, 8304}
    \/ c \in 8308..8313
    \/ c \in 8320..8329
    \/ c = 65536

\* the regular expression class \w on a str
IsWordChar(c) == IsAlnum(c) \/ c = Underscore

\* str.lower() on one character: ASCII and Greek capitals (no capital
\* sigma ends a word in the model's inputs, so the final-sigma rule is
\* not modelled)
LowerChar(c) ==
    IF c \in 65..90 THEN c + 32
    ELSE IF c \in (913..937) \ {930} THEN c + 32
    ELSE c

Lower(s) == [i \in 1..Len(s) |-> LowerChar(s[i])]

\* _SUBSUP_DIGITS: the translation table of superscript and subscript
\* digits to ASCII digits
SubSupDigit(c) ==
    IF c = 8304 THEN 48
    ELSE IF c = 185 THEN 49
    ELSE IF c = 178 THEN 50
    ELSE IF c = 179 THEN 51
    ELSE IF c \in 8308..8313 THEN c - 8308 + 52
    ELSE IF c \in 8320..8329 THEN c - 8320 + 48
    ELSE c

normalize_digits(s) == [i \in 1..Len(s) |-> SubSupDigit(s[i])]

(***************************************************************************)
(* str methods used by the source.                                         *)
(***************************************************************************)
\* str.strip(...): s from the first to the last of the positions in keep,
\* the positions of the characters that are not stripped
Trim(s, keep) ==
    IF keep = {} THEN <<>>
    ELSE LET lo == CHOOSE i \in keep : \A j \in keep : i <= j
             hi == CHOOSE i \in keep : \A j \in keep : j <= i
         IN  SubSeq(s, lo, hi)

\* str.strip()
Strip(s) == Trim(s, {i \in 1..Len(s) : ~IsSpace(s[i])})

\* str.strip("_")
StripUnderscores(s) == Trim(s, {i \in 1..Len(s) : s[i] # Underscore})

\* str.replace(old, new) for single characters
ReplaceChar(s, old, new) == [i \in 1..Len(s) |-> IF s[i] = old THEN new ELSE s[i]]

\* str.replace(old, "") for a single character
RemoveChar(s, old) == SelectSeq(s, LAMBDA c : c # old)

\* str.split(sep) for a single character separator: empty pieces are kept
RECURSIVE SplitOn(_, _)
SplitOn(s, sep) ==
    LET at == {i \in 1..Len(s) : s[i] = sep}
    IN  IF at = {} THEN <<s>>
        ELSE LET i == CHOOSE i \in at : \A j \in at : i <= j
             IN  <<SubSeq(s, 1, i - 1)>> \o SplitOn(SubSeq(s, i + 1, Len(s)), sep)

\* str.split(): the maximal runs of non-whitespace characters
RECURSIVE SplitWs(_)
SplitWs(s) ==
    LET t == Strip(s)
        ws == {i \in 1..Len(t) : IsSpace(t[i])}
    IN  IF t = <<>> THEN <<>>
        ELSE IF ws = {} THEN <<t>>
        ELSE LET i == CHOOSE i \in ws : \A j \in ws : i <= j
             IN  <<SubSeq(t, 1, i - 1)>> \o SplitWs(SubSeq(t, i + 1, Len(t)))

\* " ".join(words)
RECURSIVE JoinSpace(_)
JoinSpace(ws) ==
    IF ws = <<>> THEN <<>>
    ELSE IF Len(ws) = 1 THEN ws[1]
    ELSE ws[1] \o <<Space>> \o JoinSpace(Tail(ws))

\* re.sub(r"[^\w\s\-]", " ", s)
SubNonWord(s) ==
    [i \in 1..Len(s) |->
        IF IsWordChar(s[i]) \/ IsSpace(s[i]) \/ s[i] = Hyphen THEN s[i] ELSE Space]

\* re.sub(r"\s+", "_", s): every maximal whitespace run becomes one underscore
SubWsRuns(s) ==
    Concat([i \in 1..Len(s) |->
        IF ~IsSpace(s[i]) THEN <<s[i]>>
        ELSE IF i > 1 /\ IsSpace(s[i - 1]) THEN <<>>
        ELSE <<Underscore>>])

slug(s) == Lower(StripUnderscores(SubWsRuns(SubNonWord(normalize_digits(Strip(s))))))

(***************************************************************************)
(* The result of a call: a value, None, or an exception that propagates.   *)
(***************************************************************************)
Str(s) == [kind |-> "str", text |-> s, exc |-> ""]

None == [kind |-> "None", text |-> <<>>, exc |-> ""]

Raised(e) == [kind |-> "raise", text |-> <<>>, exc |-> e]

(***************************************************************************)
(* UTF-8, as str.encode("utf-8") and bytes.decode("utf-8") compute it.     *)
(***************************************************************************)
IsSurrogate(c) == c \in 55296..57343

\* the bytes of one code point (a surrogate has none: UnicodeEncodeError)
Utf8EncodeChar(c) ==
    IF c < 128 THEN <<c>>
    ELSE IF c < 2048 THEN <<192 + (c \div 64), 128 + (c % 64)>>
    ELSE IF c < 65536 THEN
        <<224 + (c \div 4096), 128 + ((c \div 64) % 64), 128 + (c % 64)>>
    ELSE <<240 + (c \div 262144), 128 + ((c \div 4096) % 64),
           128 + ((c \div 64) % 64), 128 + (c % 64)>>

Utf8Encode(s) == Concat([i \in 1..Len(s) |-> Utf8EncodeChar(s[i])])

IsCont(b) == b \in 128..191

\* the length of the well-formed sequence that starts b, or 0 when b starts
\* none (strict decoding: no overlong form, no surrogate, nothing above
\* U+10FFFF, no truncated sequence)
WellFormedLen(b) ==
    IF b = <<>> THEN 0
    ELSE IF b[1] < 128 THEN 1
    ELSE IF b[1] \in 194..223 THEN
        IF Len(b) >= 2 /\ IsCont(b[2]) THEN 2 ELSE 0
    ELSE IF b[1] \in 224..239 THEN
        IF /\ Len(b) >= 3
           /\ IsCont(b[2])
           /\ IsCont(b[3])
           /\ (b[1] = 224 => b[2] >= 160)
           /\ (b[1] = 237 => b[2] <= 159)
        THEN 3 ELSE 0
    ELSE IF b[1] \in 240..244 THEN
        IF /\ Len(b) >= 4
           /\ IsCont(b[2])
           /\ IsCont(b[3])
           /\ IsCont(b[4])
           /\ (b[1] = 240 => b[2] >= 144)
           /\ (b[1] = 244 => b[2] <= 143)
        THEN 4 ELSE 0
    ELSE 0

\* the code point of a well-formed sequence of n bytes
Utf8CodePoint(b, n) ==
    IF n = 1 THEN b[1]
    ELSE IF n = 2 THEN (b[1] - 192) * 64 + (b[2] - 128)
    ELSE IF n = 3 THEN (b[1] - 224) * 4096 + (b[2] - 128) * 64 + (b[3] - 128)
    ELSE (b[1] - 240) * 262144 + (b[2] - 128) * 4096 + (b[3] - 128) * 64 + (b[4] - 128)

\* bytes.decode("utf-8"): the text, or UnicodeDecodeError
RECURSIVE Utf8Decode(_)
Utf8Decode(b) ==
    IF b = <<>> THEN Str(<<>>)
    ELSE LET n == WellFormedLen(b)
         IN  IF n = 0 THEN Raised("UnicodeDecodeError")
             ELSE LET rest == Utf8Decode(SubSeq(b, n + 1, Len(b)))
                  IN  IF rest.kind = "raise" THEN rest
                      ELSE Str(<<Utf8CodePoint(b, n)>> \o rest.text)

(***************************************************************************)
(* Hexadecimal.                                                            *)
(***************************************************************************)
\* c in "0123456789ABCDEFabcdef"
IsHexChar(c) == c \in 48..57 \/ c \in 65..70 \/ c \in 97..102

HexDigitValue(c) ==
    IF c \in 48..57 THEN c - 48
    ELSE IF c \in 65..70 THEN c - 55
    ELSE c - 87

\* int(p, 16) for a piece of hexadecimal digits; -1 stands for ValueError
\* (the pieces that reach it are hexadecimal digits only)
IntBase16(p) ==
    IF p = <<>> \/ \E i \in 1..Len(p) : ~IsHexChar(p[i]) THEN -1
    ELSE IF Len(p) = 1 THEN HexDigitValue(p[1])
    ELSE HexDigitValue(p[1]) * 16 + HexDigitValue(p[2])

UpperHexDigit(n) == IF n < 10 THEN 48 + n ELSE 55 + n

\* f"{b:X}": no zero padding, so a byte below 16 gives one digit
FormatByteUnpadded(b) ==
    IF b < 16 THEN <<UpperHexDigit(b)>>
    ELSE <<UpperHexDigit(b \div 16), UpperHexDigit(b % 16)>>

\* f"{b:02X}"
FormatByte(b) == <<UpperHexDigit(b \div 16), UpperHexDigit(b % 16)>>

(***************************************************************************)
(* title_to_encoded_stem and stem_to_title.                                *)
(***************************************************************************)
\* "_" + "_".join(f"{b:02X}" for b in raw)
title_to_encoded_stem(title) ==
    IF title = <<>> THEN Str(<<>>)
    ELSE IF \E i \in 1..Len(title) : IsSurrogate(title[i])
         THEN Raised("UnicodeEncodeError")
    ELSE LET raw == Utf8Encode(title)
         IN  Str(Concat([i \in 1..Len(raw) |-> <<Underscore>> \o FormatByte(raw[i])]))

\* the filter of the generator: len(p) == 2 and every character hexadecimal
IsHexPair(p) == Len(p) = 2 /\ \A i \in 1..2 : IsHexChar(p[i])

\* the exceptions the except clause names
Handles_Nothing(e) == FALSE

Handles(e) == e \in {"ValueError", "UnicodeDecodeError"}

\* the body of the try statement
DecodeBody(stem) ==
    LET s == IF Head(stem) = Underscore THEN Tail(stem) ELSE stem
        parts == SplitOn(s, Underscore)
        valid == SelectSeq(parts, IsHexPair)
        vals == [i \in 1..Len(valid) |-> IntBase16(valid[i])]
    IN  IF \E i \in 1..Len(vals) : vals[i] \notin 0..255 THEN Raised("ValueError")
        ELSE IF vals = <<>> THEN None
        ELSE Utf8Decode(vals)

stem_to_title(stem) ==
    IF stem = <<>> THEN None
    ELSE LET r == DecodeBody(stem)
         IN  IF r.kind = "raise" /\ Handles(r.exc) THEN None ELSE r

(***************************************************************************)
(* State.                                                                  *)
(*                                                                         *)
(* The decoder run: an input (a raw stem, or a title to encode first),     *)
(* and the result of stem_to_title on it.                                  *)
(*                                                                         *)
(* The matcher run: the images directory (what kind of path it is, and its *)
(* entries in iteration order), the position of build_title_to_file_map in *)
(* its loop, the table it builds, and the last find_image_for_title call.  *)
(*                                                                         *)
(* The pipeline run: the flags and inputs of run_pipeline (the scraped     *)
(* rows, the images directory, the storage bucket), its position, its      *)
(* locals, and what it has sent out (uploads, the export, upsert batches). *)
(***************************************************************************)
VARIABLES cmode, ctitle, cstem, cout, cpc,
          dirKind, listing, pc, idx, pending, title_to_path, title, result, via,
          skip_scrape, rows, imagesKind, imagesListing, bucket, ppc, table,
          todo, song_to_path, store_i, song_to_image_url, uploads,
          export_rows, batches, batch_i

codecVars == <<cmode, ctitle, cstem, cout, cpc>>

matchVars == <<dirKind, listing, pc, idx, pending, title_to_path, title, result, via>>

pipeVars == <<skip_scrape, rows, imagesKind, imagesListing, bucket, ppc, table,
              todo, song_to_path, store_i, song_to_image_url, uploads,
              export_rows, batches, batch_i>>

vars == <<cmode, ctitle, cstem, cout, cpc,
          dirKind, listing, pc, idx, pending, title_to_path, title, result, via,
          skip_scrape, rows, imagesKind, imagesListing, bucket, ppc, table,
          todo, song_to_path, store_i, song_to_image_url, uploads,
          export_rows, batches, batch_i>>

PipelineIdle ==
    /\ skip_scrape = FALSE
    /\ rows = <<>>
    /\ imagesKind = "missing"
    /\ imagesListing = <<>>
    /\ bucket = {}
    /\ ppc = "idle"
    /\ table = <<>>
    /\ todo = {}
    /\ song_to_path = <<>>
    /\ store_i = 0
    /\ song_to_image_url = <<>>
    /\ uploads = <<>>
    /\ export_rows = <<>>
    /\ batches = <<>>
    /\ batch_i = 0

(***************************************************************************)
(* Inputs of the decoder run.                                              *)
(***************************************************************************)
\* "_", "4", "1", "8", "C" (hexadecimal digits), "R" (not one)
StemAlphabet == {95, 52, 49, 56, 67, 82}

\* "_CE_9F_CE_94_CE_A5_CE_A3_CE_A3_CE_95_CE_99_CE_91"
OdysseiaStem ==
    <<95, 67, 69, 95, 57, 70, 95, 67, 69, 95, 57, 52, 95, 67, 69, 95, 65, 53,
      95, 67, 69, 95, 65, 51, 95, 67, 69, 95, 65, 51, 95, 67, 69, 95, 57, 53,
      95, 67, 69, 95, 57, 57, 95, 67, 69, 95, 57, 49>>

\* the Greek title the header comment of the source names
Odysseia == <<927, 916, 933, 931, 931, 917, 921, 913>>

\* "Fracture_Ray", "Ray_41", "_41_", "INCARNATOR_00", "e4_84_84", "_ce_9f",
\* "_80", "_ED_A0_80" (a surrogate), "_F4_90_80_80" (above U+10FFFF),
\* "_C0_80" (overlong), "_E4_84" (truncated)
ExtraStems ==
    { <<70, 114, 97, 99, 116, 117, 114, 101, 95, 82, 97, 121>>,
      <<82, 97, 121, 95, 52, 49>>,
      <<95, 52, 49, 95>>,
      <<73, 78, 67, 65, 82, 78, 65, 84, 79, 82, 95, 48, 48>>,
      <<101, 52, 95, 56, 52, 95, 56, 52>>,
      <<95, 99, 101, 95, 57, 102>>,
      <<95, 56, 48>>,
      <<95, 69, 68, 95, 65, 48, 95, 56, 48>>,
      <<95, 70, 52, 95, 57, 48, 95, 56, 48, 95, 56, 48>>,
      <<95, 67, 48, 95, 56, 48>>,
      <<95, 69, 52, 95, 56, 52>>,
      OdysseiaStem }

RawStems == SeqsUpTo(StemAlphabet, MaxStemLen) \cup ExtraStems

\* tab, "A", U+039F, U+2080, U+10000, and the surrogate U+D800, which
\* cannot be encoded
TitleAlphabet == {9, 65, 927, 8320, 65536, 55296}

\* boundary code points of the four UTF-8 lengths
BoundaryTitles ==
    { <<0>>, <<127>>, <<128>>, <<2047>>, <<2048>>, <<55295>>, <<57344>>,
      <<65535>>, <<1114111>>, Odysseia }

CodecTitles == SeqsUpTo(TitleAlphabet, MaxTitleLen) \cup BoundaryTitles

\* tab, space, "!", "-", "A", "_" and a subscript zero
SlugAlphabet == {9, 32, 33, 45, 65, 95, 8320}

SlugInputs == SeqsUpTo(SlugAlphabet, MaxSlugLen)

(***************************************************************************)
(* The decoder run.                                                        *)
(***************************************************************************)
MatcherIdle ==
    /\ dirKind = "missing"
    /\ listing = <<>>
    /\ pc = "idle"
    /\ idx = 0
    /\ pending = <<>>
    /\ title_to_path = <<>>
    /\ title = <<>>
    /\ result = None
    /\ via = 0

InitCodec ==
    /\ MatcherIdle
    /\ PipelineIdle
    /\ cpc = "input"
    /\ cout = None
    /\ \/ cmode = "stem" /\ ctitle = <<>> /\ cstem \in RawStems
       \/ cmode = "title" /\ ctitle \in CodecTitles /\ cstem = <<>>
       \/ cmode = "slug" /\ ctitle \in SlugInputs /\ cstem = <<>>

\* title_to_encoded_stem(ctitle)
EncodeTitle ==
    /\ cpc = "input"
    /\ cmode = "title"
    /\ LET r == title_to_encoded_stem(ctitle)
       IN  IF r.kind = "raise"
           THEN cpc' = "raised" /\ cout' = r /\ cstem' = cstem
           ELSE cpc' = "encoded" /\ cstem' = r.text /\ cout' = cout
    /\ UNCHANGED <<cmode, ctitle>>
    /\ UNCHANGED <<matchVars, pipeVars>>

\* stem_to_title(cstem), on a raw stem or on the stem just encoded
DecodeStem ==
    /\ IF cmode = "stem" THEN cpc = "input" ELSE cmode = "title" /\ cpc = "encoded"
    /\ cout' = stem_to_title(cstem)
    /\ cpc' = "decoded"
    /\ UNCHANGED <<cmode, ctitle, cstem>>
    /\ UNCHANGED <<matchVars, pipeVars>>

\* slug(ctitle)
SlugText ==
    /\ cpc = "input"
    /\ cmode = "slug"
    /\ cout' = Str(slug(ctitle))
    /\ cpc' = "slugged"
    /\ UNCHANGED <<cmode, ctitle, cstem>>
    /\ UNCHANGED <<matchVars, pipeVars>>

NextCodec == EncodeTitle \/ DecodeStem \/ SlugText

SpecCodec == InitCodec /\ [][NextCodec]_vars

(***************************************************************************)
(* pathlib: the suffix and the stem of a file name.                        *)
(***************************************************************************)
\* name.rfind("."), counted from 1; 0 when there is no dot
LastDot(name) ==
    LET at == {i \in 1..Len(name) : name[i] = 46}
    IN  IF at = {} THEN 0 ELSE CHOOSE i \in at : \A j \in at : j <= i

\* a leading dot and a trailing dot start no suffix
HasSuffix(name) == LastDot(name) > 1 /\ LastDot(name) < Len(name)

PathSuffix(name) ==
    IF HasSuffix(name) THEN SubSeq(name, LastDot(name), Len(name)) ELSE <<>>

PathStem(name) ==
    IF HasSuffix(name) THEN SubSeq(name, 1, LastDot(name) - 1) ELSE name

(***************************************************************************)
(* build_title_to_file_map.                                                *)
(***************************************************************************)
\* (".jpg", ".jpeg", ".png", ".webp", ".gif")
AllowedExts ==
    { <<46, 106, 112, 103>>, <<46, 106, 112, 101, 103>>, <<46, 112, 110, 103>>,
      <<46, 119, 101, 98, 112>>, <<46, 103, 105, 102>> }

\* the two continue statements at the top of the loop body, without the
\* is_dir test
Skipped_NoDirTest(entry) == Lower(PathSuffix(entry.name)) \notin AllowedExts

\* the two continue statements at the top of the loop body
Skipped(entry) ==
    \/ entry.is_dir
    \/ Lower(PathSuffix(entry.name)) \notin AllowedExts

HasKey(tbl, k) == \E i \in 1..Len(tbl) : tbl[i].key = k

Get(tbl, k) == tbl[CHOOSE i \in 1..Len(tbl) : tbl[i].key = k].path

Keys(tbl) == {tbl[i].key : i \in 1..Len(tbl)}

\* an assignment without the "not in" test: the key keeps its place in the
\* dict and takes the new value
Register_Overwrite(tbl, k, path, guarded) ==
    IF guarded /\ k = <<>> THEN tbl
    ELSE IF HasKey(tbl, k)
         THEN [i \in 1..Len(tbl) |->
                  IF tbl[i].key = k THEN [key |-> k, path |-> path] ELSE tbl[i]]
         ELSE Append(tbl, [key |-> k, path |-> path])

\* if key and key not in title_to_path: title_to_path[key] = path
\* (guarded: whether the statement tests the key for emptiness)
Register(tbl, k, path, guarded) ==
    IF (guarded => k # <<>>) /\ ~HasKey(tbl, k)
    THEN Append(tbl, [key |-> k, path |-> path])
    ELSE tbl

\* the keys the loop body offers for a stem, in the order of its statements
OfferedKeys(stem) ==
    LET decoded == stem_to_title(stem)
    IN  IF decoded.kind = "str"
        THEN << [key |-> Lower(Strip(decoded.text)), guarded |-> TRUE],
                [key |-> Lower(JoinSpace(SplitWs(decoded.text))), guarded |-> TRUE] >>
        ELSE LET normal_title == Strip(ReplaceChar(stem, Underscore, Space))
             IN  << [key |-> slug(normal_title), guarded |-> TRUE],
                    [key |-> Lower(normal_title), guarded |-> TRUE],
                    [key |-> RemoveChar(RemoveChar(Lower(normal_title), Space), Underscore),
                     guarded |-> TRUE],
                    [key |-> Lower(stem), guarded |-> FALSE] >>

\* the assignments of one loop body, in order
RECURSIVE RegisterAll(_, _, _)
RegisterAll(tbl, offers, path) ==
    IF offers = <<>> THEN tbl
    ELSE RegisterAll(Register(tbl, Head(offers).key, path, Head(offers).guarded),
                     Tail(offers), path)

\* the loop over the entries, in iteration order
RECURSIVE ScanAll(_, _)
ScanAll(tbl, entries) ==
    IF entries = <<>> THEN tbl
    ELSE ScanAll(IF Skipped(Head(entries)) THEN tbl
                 ELSE RegisterAll(tbl, OfferedKeys(PathStem(Head(entries).name)),
                                  Head(entries).name),
                 Tail(entries))

\* the table build_title_to_file_map returns for a path of the given kind
\* with the given entries
build_title_to_file_map(kind, entries) ==
    IF kind # "dir" THEN <<>> ELSE ScanAll(<<>>, entries)

(***************************************************************************)
(* find_image_for_title.                                                   *)
(***************************************************************************)
\* "wiki_images", the default of --images
ImagesDirName == <<119, 105, 107, 105, 95, 105, 109, 97, 103, 101, 115>>

\* _rel: the path relative to the parent of the images directory
Rel(name) == ImagesDirName \o <<47>> \o name

Hit(name, n) == [res |-> Str(Rel(name)), via |-> n]

NoMatch(n) == [res |-> None, via |-> n]

IsBlankTitle(arg) == arg.kind = "None" \/ arg.text = <<>> \/ Strip(arg.text) = <<>>

ExactKey(t) == Lower(normalize_digits(Strip(t)))

SlugKey(t) == slug(Strip(t))

CollapsedKey(t) == normalize_digits(Lower(JoinSpace(SplitWs(Strip(t)))))

\* key.startswith(s) or s.startswith(key)
PrefixRelated(key, s) == StartsWith(key, s) \/ StartsWith(s, key)

\* the prefix pass without the test of the slug: the empty slug is a
\* prefix of every key
FuzzyHits_NoSlugGuard(s, tbl) == {i \in 1..Len(tbl) : PrefixRelated(tbl[i].key, s)}

\* the positions of the table the loop of the prefix pass returns at
FuzzyHits(s, tbl) == {i \in 1..Len(tbl) : s # <<>> /\ PrefixRelated(tbl[i].key, s)}

FirstOf(S) == CHOOSE i \in S : \A j \in S : i <= j

\* the cascade without the blank-title return: None has no strip method,
\* and an empty or blank title goes through the lookups
find_image_for_title_NoBlankTest(arg, tbl) ==
    IF arg.kind = "None" THEN [res |-> Raised("AttributeError"), via |-> 0]
    ELSE LET k == ExactKey(arg.text)
             s == SlugKey(arg.text)
             key2 == CollapsedKey(arg.text)
         IN  IF HasKey(tbl, k) THEN Hit(Get(tbl, k), 1)
             ELSE IF HasKey(tbl, s) THEN Hit(Get(tbl, s), 2)
             ELSE IF HasKey(tbl, key2) THEN Hit(Get(tbl, key2), 3)
             ELSE IF FuzzyHits(s, tbl) # {}
                  THEN Hit(tbl[FirstOf(FuzzyHits(s, tbl))].path, 4)
                  ELSE NoMatch(5)

\* the prefix pass testing key.startswith(s) only
find_image_for_title_KeyPrefixOnly(arg, tbl) ==
    IF IsBlankTitle(arg) THEN NoMatch(0)
    ELSE LET k == ExactKey(arg.text)
             s == SlugKey(arg.text)
             key2 == CollapsedKey(arg.text)
             hits == {i \in 1..Len(tbl) : s # <<>> /\ StartsWith(tbl[i].key, s)}
         IN  IF HasKey(tbl, k) THEN Hit(Get(tbl, k), 1)
             ELSE IF HasKey(tbl, s) THEN Hit(Get(tbl, s), 2)
             ELSE IF HasKey(tbl, key2) THEN Hit(Get(tbl, key2), 3)
             ELSE IF hits # {}
                  THEN Hit(tbl[FirstOf(hits)].path, 4)
                  ELSE NoMatch(5)

\* the cascade with the slug tried before the exact key
find_image_for_title_SlugFirst(arg, tbl) ==
    IF IsBlankTitle(arg) THEN NoMatch(0)
    ELSE LET k == ExactKey(arg.text)
             s == SlugKey(arg.text)
             key2 == CollapsedKey(arg.text)
         IN  IF HasKey(tbl, s) THEN Hit(Get(tbl, s), 2)
             ELSE IF HasKey(tbl, k) THEN Hit(Get(tbl, k), 1)
             ELSE IF HasKey(tbl, key2) THEN Hit(Get(tbl, key2), 3)
             ELSE IF FuzzyHits(s, tbl) # {}
                  THEN Hit(tbl[FirstOf(FuzzyHits(s, tbl))].path, 4)
                  ELSE NoMatch(5)

\* the result and the return statement that gave it: 0 the blank-title
\* return, 1 to 3 the three lookups, 4 the prefix pass, 5 the final return
find_image_for_title(arg, tbl) ==
    IF IsBlankTitle(arg) THEN NoMatch(0)
    ELSE LET k == ExactKey(arg.text)
             s == SlugKey(arg.text)
             key2 == CollapsedKey(arg.text)
         IN  IF HasKey(tbl, k) THEN Hit(Get(tbl, k), 1)
             ELSE IF HasKey(tbl, s) THEN Hit(Get(tbl, s), 2)
             ELSE IF HasKey(tbl, key2) THEN Hit(Get(tbl, key2), 3)
             ELSE IF FuzzyHits(s, tbl) # {}
                  THEN Hit(tbl[FirstOf(FuzzyHits(s, tbl))].path, 4)
                  ELSE NoMatch(5)

(***************************************************************************)
(* Inputs of the matcher run.                                              *)
(***************************************************************************)
File(name) == [name |-> name, is_dir |-> FALSE]

SubDir(name) == [name |-> name, is_dir |-> TRUE]

\* "INCARNATOR_00.jpg"
Incarnator00Jpg == File(<<73, 78, 67, 65, 82, 78, 65, 84, 79, 82, 95, 48, 48, 46, 106, 112, 103>>)

\* "Fracture_Ray.jpg"
FractureRayJpg == File(<<70, 114, 97, 99, 116, 117, 114, 101, 95, 82, 97, 121, 46, 106, 112, 103>>)

\* "_61_20_62.jpg", the encoded form of "a b"
EncodedABJpg == File(<<95, 54, 49, 95, 50, 48, 95, 54, 50, 46, 106, 112, 103>>)

\* "a_b.jpg"
ABJpg == File(<<97, 95, 98, 46, 106, 112, 103>>)

\* "A_B.PNG"
ABUpperPng == File(<<65, 95, 66, 46, 80, 78, 71>>)

\* "a.gif"
AGif == File(<<97, 46, 103, 105, 102>>)

\* "_20.jpg", the encoded form of " "
EncodedSpaceJpg == File(<<95, 50, 48, 46, 106, 112, 103>>)

\* "notes.txt"
NotesTxt == File(<<110, 111, 116, 101, 115, 46, 116, 120, 116>>)

\* "README"
Readme == File(<<82, 69, 65, 68, 77, 69>>)

\* a sub-directory named "sub.jpg"
SubJpgDir == SubDir(<<115, 117, 98, 46, 106, 112, 103>>)

\* "A" followed by a subscript zero
TitleASubZero == <<65, 8320>>

\* "_41_E2_82_80.jpg", the encoded form of "A" and a subscript zero
EncodedASubZeroJpg ==
    File(title_to_encoded_stem(TitleASubZero).text \o <<46, 106, 112, 103>>)

\* "b_", a subscript zero, ".jpg": a plain stem with a subscript digit
BSubZeroJpg == File(<<98, 95, 8320, 46, 106, 112, 103>>)

\* "!.jpg"
BangJpg == File(<<33, 46, 106, 112, 103>>)

EntryPool ==
    { Incarnator00Jpg, FractureRayJpg, EncodedABJpg, ABJpg, ABUpperPng, AGif,
      EncodedSpaceJpg, NotesTxt, Readme, SubJpgDir,
      EncodedASubZeroJpg, BSubZeroJpg, BangJpg }

\* the listings iterdir() can give: entries of distinct names in any order
Listings ==
    {l \in SeqsUpTo(EntryPool, MaxFiles) :
        \A i, j \in 1..Len(l) : i # j => l[i].name # l[j].name}

\* "INCARNATOR" followed by two subscript zeros
TitleIncarnatorSub == <<73, 78, 67, 65, 82, 78, 65, 84, 79, 82, 8320, 8320>>

\* "INCARNATOR00"
TitleIncarnatorAscii == <<73, 78, 67, 65, 82, 78, 65, 84, 79, 82, 48, 48>>

\* "fracture"
TitleFracture == <<102, 114, 97, 99, 116, 117, 114, 101>>

\* "", " ", "a b", "a  b", "A_B", "ab", "a", "!", "~ +", "Fracture Ray"
Titles ==
    { <<>>, <<32>>, <<97, 32, 98>>, <<97, 32, 32, 98>>, <<65, 95, 66>>, <<97, 98>>,
      <<97>>, <<33>>, <<126, 32, 43>>,
      <<70, 114, 97, 99, 116, 117, 114, 101, 32, 82, 97, 121>>,
      TitleIncarnatorSub, TitleIncarnatorAscii, TitleFracture, TitleASubZero }

TitleArgs == {Str(t) : t \in Titles} \cup {None}

(***************************************************************************)
(* The matcher run.                                                        *)
(***************************************************************************)
CodecIdle ==
    /\ cmode = "none"
    /\ ctitle = <<>>
    /\ cstem = <<>>
    /\ cout = None
    /\ cpc = "idle"

Init ==
    /\ CodecIdle
    /\ PipelineIdle
    /\ \/ dirKind = "dir" /\ listing \in Listings
       \/ dirKind \in {"missing", "file"} /\ listing = <<>>
    /\ pc = "start"
    /\ idx = 0
    /\ pending = <<>>
    /\ title_to_path = <<>>
    /\ title = None
    /\ result = None
    /\ via = 0

\* build_title_to_file_map entered without the is_dir test: iterdir() on a
\* path that is no directory raises
BuildStart_NoDirTest ==
    /\ pc = "start"
    /\ title_to_path' = <<>>
    /\ IF dirKind = "dir" THEN pc' = "scan" /\ idx' = 1
                          ELSE pc' = "raised" /\ idx' = idx
    /\ UNCHANGED <<dirKind, listing, pending, title, result, via>>
    /\ UNCHANGED <<codecVars, pipeVars>>

\* build_title_to_file_map up to the loop: the empty table is returned at
\* once when the path is no directory
BuildStart ==
    /\ pc = "start"
    /\ title_to_path' = <<>>
    /\ IF dirKind = "dir" THEN pc' = "scan" /\ idx' = 1
                          ELSE pc' = "built" /\ idx' = idx
    /\ UNCHANGED <<dirKind, listing, pending, title, result, via>>
    /\ UNCHANGED <<codecVars, pipeVars>>

\* the top of one iteration: the entry is skipped, or its keys are computed
ScanPath ==
    /\ pc = "scan"
    /\ idx <= Len(listing)
    /\ IF Skipped(listing[idx])
       THEN pc' = "scan" /\ idx' = idx + 1 /\ pending' = <<>>
       ELSE IF stem_to_title(PathStem(listing[idx].name)).kind = "raise"
            THEN pc' = "raised" /\ idx' = idx /\ pending' = <<>>
            ELSE /\ pc' = "register"
                 /\ idx' = idx
                 /\ pending' = OfferedKeys(PathStem(listing[idx].name))
    /\ UNCHANGED <<dirKind, listing, title_to_path, title, result, via>>
    /\ UNCHANGED <<codecVars, pipeVars>>

\* one of the guarded assignments of the loop body
RegisterKey ==
    /\ pc = "register"
    /\ pending # <<>>
    /\ title_to_path' =
           Register(title_to_path, Head(pending).key, listing[idx].name,
                    Head(pending).guarded)
    /\ pending' = Tail(pending)
    /\ UNCHANGED <<dirKind, listing, pc, idx, title, result, via>>
    /\ UNCHANGED <<codecVars, pipeVars>>

\* the end of the loop body
PathDone ==
    /\ pc = "register"
    /\ pending = <<>>
    /\ pc' = "scan"
    /\ idx' = idx + 1
    /\ UNCHANGED <<dirKind, listing, pending, title_to_path, title, result, via>>
    /\ UNCHANGED <<codecVars, pipeVars>>

\* return title_to_path
BuildReturn ==
    /\ pc = "scan"
    /\ idx > Len(listing)
    /\ pc' = "built"
    /\ UNCHANGED <<dirKind, listing, idx, pending, title_to_path, title, result, via>>
    /\ UNCHANGED <<codecVars, pipeVars>>

\* a call that stores the file it found under the exact key of the title
Find_Memoizes ==
    /\ pc \in {"built", "found"}
    /\ \E arg \in TitleArgs :
          LET r == find_image_for_title(arg, title_to_path)
          IN  /\ title' = arg
              /\ result' = r.res
              /\ via' = r.via
              /\ title_to_path' =
                    IF r.via \in {2, 3, 4}
                    THEN Append(title_to_path,
                                [key |-> ExactKey(arg.text),
                                 path |-> SubSeq(r.res.text, Len(ImagesDirName) + 2,
                                                 Len(r.res.text))])
                    ELSE title_to_path
    /\ pc' = "found"
    /\ UNCHANGED <<dirKind, listing, idx, pending>>
    /\ UNCHANGED <<codecVars, pipeVars>>

\* one call of find_image_for_title on the built table
Find ==
    /\ pc \in {"built", "found"}
    /\ \E arg \in TitleArgs :
          LET r == find_image_for_title(arg, title_to_path)
          IN  /\ title' = arg
              /\ result' = r.res
              /\ via' = r.via
    /\ pc' = "found"
    /\ UNCHANGED <<dirKind, listing, idx, pending, title_to_path>>
    /\ UNCHANGED <<codecVars, pipeVars>>

Next == BuildStart \/ ScanPath \/ RegisterKey \/ PathDone \/ BuildReturn \/ Find

Spec == Init /\ [][Next]_vars

(***************************************************************************)
(* pipeline.py: run_pipeline and its helpers.                              *)
(***************************************************************************)
\* the number of rows of one upsert call
batch_size == 100

\* the longest name safe_title returns
SafeTitleMax == 50

\* the regular expression class [a-zA-Z0-9]
IsAsciiAlnum(c) == c \in 48..57 \/ c \in 65..90 \/ c \in 97..122

\* str.endswith: p is a suffix of s
EndsWith(s, p) == Len(p) <= Len(s) /\ SubSeq(s, Len(s) - Len(p) + 1, Len(s)) = p

\* str.replace(sub, ""): every occurrence of sub, left to right, is removed
RECURSIVE RemoveSub(_, _)
RemoveSub(s, sub) ==
    IF Len(s) < Len(sub) \/ sub = <<>> THEN s
    ELSE IF StartsWith(s, sub) THEN RemoveSub(SubSeq(s, Len(sub) + 1, Len(s)), sub)
    ELSE <<Head(s)>> \o RemoveSub(Tail(s), sub)

safe_title(t) ==
    LET cleaned == [i \in 1..Len(t) |-> IF IsAsciiAlnum(t[i]) THEN t[i] ELSE Underscore]
        lowered == Lower(cleaned)
    IN  IF Len(lowered) <= SafeTitleMax THEN lowered
        ELSE SubSeq(lowered, 1, SafeTitleMax)

\* "/revision/latest"
RevisionLatest == <<47, 114, 101, 118, 105, 115, 105, 111, 110, 47, 108, 97, 116, 101, 115, 116>>

image_url_without_revision(url) ==
    IF url = <<>> THEN url ELSE RemoveSub(url, RevisionLatest)

\* "song-images"
STORAGE_BUCKET == <<115, 111, 110, 103, 45, 105, 109, 97, 103, 101, 115>>

\* the storage service's get_public_url: the address of the object of that
\* name in the bucket
get_public_url(name) == <<47>> \o STORAGE_BUCKET \o <<47>> \o name

\* (".jpg", ".jpeg", ".png", ".webp", ".gif") of step 4
StorageExts ==
    { <<46, 106, 112, 103>>, <<46, 106, 112, 101, 103>>, <<46, 112, 110, 103>>,
      <<46, 119, 101, 98, 112>>, <<46, 103, 105, 102>> }

\* the storage name of step 4 for a song and its local file
storage_name(song, local_path) ==
    LET n == safe_title(song) \o Lower(PathSuffix(local_path))
    IN  IF \E e \in StorageExts : EndsWith(n, e) THEN n
        ELSE safe_title(song) \o <<46, 106, 112, 103>>

BucketNames(b) == {o.name : o \in b}

\* file_exists_in_bucket: the listing holds the name; a listing that
\* raised OSError or ValueError counts as absent
file_exists_in_bucket(b, file_path, listed) ==
    listed = "ok" /\ file_path \in BucketNames(b)

\* project_root / rel: the local file of a relative path that
\* find_image_for_title returned
LocalPath(rel) == SubSeq(rel, Len(ImagesDirName) + 2, Len(rel))

\* the songs of step 3: the stripped song of every row that has one
SongSet(rs) == {Strip(rs[i].song) : i \in {j \in 1..Len(rs) : rs[j].song # <<>>}}

HasSong(m, song) == \E i \in 1..Len(m) : m[i].song = song

\* song_to_image_url.get(song) or ""
UrlOrEmpty(m, song) ==
    IF HasSong(m, song) THEN m[CHOOSE i \in 1..Len(m) : m[i].song = song].url
    ELSE <<>>

\* step 5 keeping only the rows that have an image
ExportRowsOf_MatchedOnly(rs, urls) ==
    SelectSeq([i \in 1..Len(rs) |->
                  [imageUrl |-> UrlOrEmpty(urls, Strip(rs[i].song)),
                   song |-> Strip(rs[i].song),
                   artist |-> rs[i].artist]],
              LAMBDA r : r.imageUrl # <<>>)

\* step 5: one export row for every row, in order
ExportRowsOf(rs, urls) ==
    [i \in 1..Len(rs) |->
        [imageUrl |-> UrlOrEmpty(urls, Strip(rs[i].song)),
         song |-> Strip(rs[i].song),
         artist |-> rs[i].artist]]

\* step 7: the row sent to the songs table
DbRow(r) == [imageUrl |-> r.imageUrl, title |-> r.song, artist |-> r.artist]

db_rows == [i \in 1..Len(export_rows) |-> DbRow(export_rows[i])]

\* "a b", "a_b", "zz", " a b "
SongAB == <<97, 32, 98>>

SongAUnderscoreB == <<97, 95, 98>>

SongZZ == <<122, 122>>

SongABPadded == <<32, 97, 32, 98, 32>>

\* the song columns the scrape can give, repeated down the rows
SongCycles ==
    { <<SongAB>>, <<SongZZ>>, <<SongAB, SongAUnderscoreB>>,
      <<SongAUnderscoreB, SongZZ, <<>>, SongABPadded>> }

\* the rows of a scrape: the songs of a cycle, each row with its own artist
RowsOf(cycle, n) ==
    [i \in 1..n |-> [song |-> cycle[((i - 1) % Len(cycle)) + 1], artist |-> i]]

RowCounts == {k * batch_size + e : k \in 0..MaxBatches, e \in 0..MaxExtraRows}

\* what iterdir() gives for the images directory
PipelineListings == { <<>>, <<ABJpg, EncodedABJpg>>, <<EncodedABJpg, ABJpg>> }

\* an object of an earlier run under the name "a_b.jpg"
OldObject == [name |-> <<97, 95, 98, 46, 106, 112, 103>>, bytes |-> <<>>, pre |-> TRUE]

InitPipeline ==
    /\ CodecIdle
    /\ MatcherIdle
    /\ skip_scrape \in BOOLEAN
    /\ \E cycle \in SongCycles, n \in RowCounts : rows = RowsOf(cycle, n)
    /\ \/ imagesKind = "dir" /\ imagesListing \in PipelineListings
       \/ imagesKind = "missing" /\ imagesListing = <<>>
    /\ bucket \in {{}, {OldObject}}
    /\ ppc = "start"
    /\ table = <<>>
    /\ todo = {}
    /\ song_to_path = <<>>
    /\ store_i = 0
    /\ song_to_image_url = <<>>
    /\ uploads = <<>>
    /\ export_rows = <<>>
    /\ batches = <<>>
    /\ batch_i = 0

\* step 1: a scrape that gives no rows ends the run; a reused CSV file is
\* taken as it is
Scrape ==
    /\ ppc = "start"
    /\ ppc' = IF ~skip_scrape /\ rows = <<>> THEN "no_rows" ELSE "scraped"
    /\ UNCHANGED <<skip_scrape, rows, imagesKind, imagesListing, bucket, table,
                   todo, song_to_path, store_i, song_to_image_url, uploads,
                   export_rows, batches, batch_i>>
    /\ UNCHANGED <<codecVars, matchVars>>

\* step 2 after the download, and step 3 up to its loop
BuildMap ==
    /\ ppc = "scraped"
    /\ IF imagesKind # "dir"
       THEN /\ ppc' = "no_images"
            /\ UNCHANGED <<table, todo>>
       ELSE /\ table' = build_title_to_file_map(imagesKind, imagesListing)
            /\ todo' = SongSet(rows)
            /\ ppc' = "match"
    /\ UNCHANGED <<skip_scrape, rows, imagesKind, imagesListing, bucket,
                   song_to_path, store_i, song_to_image_url, uploads,
                   export_rows, batches, batch_i>>
    /\ UNCHANGED <<codecVars, matchVars>>

\* one pass of the loop of step 3: the set gives its songs in any order
MatchSong ==
    /\ ppc = "match"
    /\ \E song \in todo :
          LET rel == find_image_for_title(Str(song), table).res
          IN  /\ song_to_path' =
                    IF HasSong(song_to_path, song) \/ rel = None \/ rel.text = <<>>
                    THEN song_to_path
                    ELSE Append(song_to_path, [song |-> song, path |-> LocalPath(rel.text)])
              /\ todo' = todo \ {song}
    /\ UNCHANGED <<skip_scrape, rows, imagesKind, imagesListing, bucket, ppc, table,
                   store_i, song_to_image_url, uploads, export_rows, batches, batch_i>>
    /\ UNCHANGED <<codecVars, matchVars>>

\* the end of the loop of step 3
MatchDone ==
    /\ ppc = "match"
    /\ todo = {}
    /\ ppc' = "store"
    /\ store_i' = 1
    /\ UNCHANGED <<skip_scrape, rows, imagesKind, imagesListing, bucket, table, todo,
                   song_to_path, song_to_image_url, uploads, export_rows, batches,
                   batch_i>>
    /\ UNCHANGED <<codecVars, matchVars>>

\* one pass of the loop of step 4.  The listing of the bucket answers, or
\* raises OSError or ValueError (the name counts as absent), or raises
\* something else (the run fails); the upload stores the bytes, or is
\* refused because the name exists (the address is returned), or fails
StoreSong ==
    /\ ppc = "store"
    /\ store_i <= Len(song_to_path)
    /\ LET song == song_to_path[store_i].song
           local_path == song_to_path[store_i].path
           name == storage_name(song, local_path)
           url == image_url_without_revision(get_public_url(name))
           entry == [song |-> song, url |-> url]
       IN  \E listed \in {"ok", "oserror", "raised"}, sent \in {"ok", "error"} :
              IF listed = "raised"
              THEN /\ sent = "ok"
                   /\ ppc' = "failed"
                   /\ UNCHANGED <<bucket, store_i, song_to_image_url, uploads>>
              ELSE IF file_exists_in_bucket(bucket, name, listed)
              THEN /\ sent = "ok"
                   /\ song_to_image_url' = Append(song_to_image_url, entry)
                   /\ store_i' = store_i + 1
                   /\ UNCHANGED <<bucket, ppc, uploads>>
              ELSE /\ uploads' = Append(uploads,
                                     [song |-> song, name |-> name, path |-> local_path,
                                      ok |-> sent = "ok"])
                   /\ bucket' =
                         IF sent = "ok" /\ name \notin BucketNames(bucket)
                         THEN bucket \cup {[name |-> name, bytes |-> local_path, pre |-> FALSE]}
                         ELSE bucket
                   /\ song_to_image_url' =
                         IF sent = "ok" /\ url # <<>>
                         THEN Append(song_to_image_url, entry)
                         ELSE song_to_image_url
                   /\ store_i' = store_i + 1
                   /\ UNCHANGED ppc
    /\ UNCHANGED <<skip_scrape, rows, imagesKind, imagesListing, table, todo,
                   song_to_path, export_rows, batches, batch_i>>
    /\ UNCHANGED <<codecVars, matchVars>>

\* steps 5 and 6: the export rows are built and written
Export ==
    /\ ppc = "store"
    /\ store_i > Len(song_to_path)
    /\ export_rows' = ExportRowsOf(rows, song_to_image_url)
    /\ ppc' = "upsert"
    /\ batch_i' = 0
    /\ UNCHANGED <<skip_scrape, rows, imagesKind, imagesListing, bucket, table, todo,
                   song_to_path, store_i, song_to_image_url, uploads, batches>>
    /\ UNCHANGED <<codecVars, matchVars>>

\* one pass of the loop of step 7: the next batch_size rows are upserted,
\* or the call raises and the run fails
UpsertBatch ==
    /\ ppc = "upsert"
    /\ batch_i < Len(db_rows)
    /\ \E sent \in {"ok", "raised"} :
          IF sent = "raised"
          THEN /\ ppc' = "failed"
               /\ UNCHANGED <<batches, batch_i>>
          ELSE /\ batches' =
                     Append(batches,
                            SubSeq(db_rows, batch_i + 1,
                                   IF batch_i + batch_size <= Len(db_rows)
                                   THEN batch_i + batch_size ELSE Len(db_rows)))
               /\ batch_i' = batch_i + batch_size
               /\ UNCHANGED ppc
    /\ UNCHANGED <<skip_scrape, rows, imagesKind, imagesListing, bucket, table, todo,
                   song_to_path, store_i, song_to_image_url, uploads, export_rows>>
    /\ UNCHANGED <<codecVars, matchVars>>

\* the end of the loop of step 7: run_pipeline returns
Finish ==
    /\ ppc = "upsert"
    /\ batch_i >= Len(db_rows)
    /\ ppc' = "done"
    /\ UNCHANGED <<skip_scrape, rows, imagesKind, imagesListing, bucket, table, todo,
                   song_to_path, store_i, song_to_image_url, uploads, export_rows,
                   batches, batch_i>>
    /\ UNCHANGED <<codecVars, matchVars>>

NextPipeline ==
    Scrape \/ BuildMap \/ MatchSong \/ MatchDone \/ StoreSong \/ Export
        \/ UpsertBatch \/ Finish

SpecPipeline == InitPipeline /\ [][NextPipeline]_vars

(***************************************************************************)
(* Properties of the decoder (checked under SpecCodec).                    *)
(***************************************************************************)

\* C2: a stem with any piece (after one optional leading underscore is
\* stripped and the rest split on underscores) that is not exactly two
\* hexadecimal digits decodes to None.
C2_NonEncodedRejection ==
    cpc = "decoded" /\ cmode = "stem" =>
        LET s == IF cstem # <<>> /\ Head(cstem) = Underscore THEN Tail(cstem) ELSE cstem
            pieces == SplitOn(s, Underscore)
        IN  (\E i \in 1..Len(pieces) :
                ~(Len(pieces[i]) = 2 /\ \A j \in 1..Len(pieces[i]) : IsHexChar(pieces[i][j])))
            => cout = None

\* C3: decoding the encoded stem of a non-empty title gives the title back,
\* and the Greek stem of the header comment decodes to its title.
C3_RoundTrip ==
    /\ (cpc = "decoded" /\ cmode = "title" /\ ctitle # <<>>) => cout = Str(ctitle)
    /\ (cpc = "decoded" /\ cstem = OdysseiaStem) => cout = Str(Odysseia)

\* a title of a two-, a three- and a four-byte character has made the trip
C3_Witness ==
    /\ cpc = "decoded"
    /\ cmode = "title"
    /\ ctitle = <<927, 8320, 65536>>
    /\ Len(cstem) = 27
    /\ cout = Str(ctitle)

\* C10: stem_to_title returns text or None on every stem; no exception
\* leaves it.
C10_DecoderTotal == cpc = "decoded" => cout.kind \in {"str", "None"}

\* the stem "_80", a lone continuation byte, has been decoded to None
C10_Witness ==
    /\ cpc = "decoded"
    /\ cstem = <<95, 56, 48>>
    /\ Utf8Decode(<<128>>).kind = "raise"
    /\ cout = None

(***************************************************************************)
(* Properties of the matcher (checked under Spec).                         *)
(***************************************************************************)

\* C1: with only INCARNATOR_00.jpg in the directory, the title written with
\* subscript zeros and the title written with ASCII zeros both resolve to
\* that file; in general a title resolves as its digit-normalized form does.
C1_DigitNormalization ==
    /\ (/\ pc = "found"
        /\ dirKind = "dir"
        /\ listing = <<Incarnator00Jpg>>
        /\ title \in {Str(TitleIncarnatorSub), Str(TitleIncarnatorAscii)})
       => result = Str(Rel(Incarnator00Jpg.name))
    /\ (pc = "found" /\ title.kind = "str")
       => result = find_image_for_title(Str(normalize_digits(title.text)), title_to_path).res

\* C4: the result is that of the first strategy that hits, in the order
\* exact key, slug key, collapsed-whitespace key, prefix pass.
C4_CascadeOrder ==
    (pc = "found" /\ ~IsBlankTitle(title)) =>
        LET k == ExactKey(title.text)
            s == SlugKey(title.text)
            key2 == CollapsedKey(title.text)
            tbl == title_to_path
        IN  /\ HasKey(tbl, k) => via = 1 /\ result = Str(Rel(Get(tbl, k)))
            /\ (~HasKey(tbl, k) /\ HasKey(tbl, s))
               => via = 2 /\ result = Str(Rel(Get(tbl, s)))
            /\ (~HasKey(tbl, k) /\ ~HasKey(tbl, s) /\ HasKey(tbl, key2))
               => via = 3 /\ result = Str(Rel(Get(tbl, key2)))
            /\ (~HasKey(tbl, k) /\ ~HasKey(tbl, s) /\ ~HasKey(tbl, key2))
               => via \in {4, 5}

\* the exact key has won although the slug key is in the table for another
\* file, which is also the file the prefix pass would have returned
C4_Witness ==
    /\ pc = "found"
    /\ ~IsBlankTitle(title)
    /\ via = 1
    /\ HasKey(title_to_path, SlugKey(title.text))
    /\ Get(title_to_path, SlugKey(title.text)) # Get(title_to_path, ExactKey(title.text))
    /\ result = Str(Rel(Get(title_to_path, ExactKey(title.text))))
    /\ \E i \in 1..Len(title_to_path) :
          /\ PrefixRelated(title_to_path[i].key, SlugKey(title.text))
          /\ title_to_path[i].path # Get(title_to_path, ExactKey(title.text))

\* C5: at every point of the build, each key of the table maps to the
\* first file, in iteration order, that offered it; no key is in the table
\* twice; every key offered so far is in the table.
C5_FirstWriterWins ==
    LET tbl == title_to_path
        \* the keys entry j has offered so far
        offered(j) ==
            IF j > Len(listing) \/ Skipped(listing[j]) THEN {}
            ELSE LET all == OfferedKeys(PathStem(listing[j].name))
                     done == IF pc = "register" /\ j = idx
                             THEN Len(all) - Len(pending)
                             ELSE IF pc \in {"scan", "register"} /\ j >= idx THEN 0
                             ELSE Len(all)
                 IN  {all[n].key : n \in {m \in 1..done : all[m].guarded => all[m].key # <<>>}}
    IN  pc \in {"scan", "register", "built", "found"} =>
          /\ \A i, j \in 1..Len(tbl) : tbl[i].key = tbl[j].key => i = j
          /\ \A i \in 1..Len(tbl) :
                \E j \in 1..Len(listing) :
                   /\ listing[j].name = tbl[i].path
                   /\ tbl[i].key \in offered(j)
                   /\ \A h \in 1..(j - 1) : tbl[i].key \notin offered(h)
          /\ \A j \in 1..Len(listing) : \A k \in offered(j) : HasKey(tbl, k)

\* two files have offered the same key and the table holds the first
C5_Witness ==
    /\ pc = "built"
    /\ Len(listing) = 2
    /\ ~Skipped(listing[1])
    /\ ~Skipped(listing[2])
    /\ \E a \in Range(OfferedKeys(PathStem(listing[1].name))) :
       \E b \in Range(OfferedKeys(PathStem(listing[2].name))) :
          /\ a.key = b.key
          /\ HasKey(title_to_path, a.key)
          /\ Get(title_to_path, a.key) = listing[1].name

C7_MissingDirectory ==
    /\ dirKind # "dir" =>
          /\ pc # "raised"
          /\ pc \in {"built", "found"} => title_to_path = <<>>
          /\ pc # "start" => pc \in {"built", "found"}
    /\ (pc = "found" /\ title_to_path = <<>>) => result = None

\* a non-blank title has been looked up in the table of a missing directory
C7_Witness ==
    /\ dirKind = "missing"
    /\ pc = "found"
    /\ title_to_path = <<>>
    /\ title = Str(<<97, 32, 98>>)
    /\ result = None

\* C8, as stated: every file with an allowed extension has a key of the
\* built table mapped to it.
C8_EveryFileContributes ==
    pc = "built" =>
        \A i \in 1..Len(listing) :
            (~listing[i].is_dir /\ Lower(PathSuffix(listing[i].name)) \in AllowedExts)
            => \E n \in 1..Len(title_to_path) : title_to_path[n].path = listing[i].name

\* C8, amended: a file with an allowed extension has a key mapped to it
\* unless every key it offers was offered by an earlier file or it offers
\* none (its stem decodes to whitespace); and the lower-cased stem of a
\* file whose stem is not decoded is a key of the table.
C8_ContributesUnlessTaken ==
    LET tbl == title_to_path
        allowed(i) ==
            ~listing[i].is_dir /\ Lower(PathSuffix(listing[i].name)) \in AllowedExts
        offers(i) ==
            IF ~allowed(i) THEN {}
            ELSE LET all == OfferedKeys(PathStem(listing[i].name))
                 IN  {all[n].key : n \in {m \in 1..Len(all) : all[m].guarded => all[m].key # <<>>}}
    IN  pc = "built" =>
          \A i \in 1..Len(listing) :
             /\ (allowed(i) /\ \E k \in offers(i) : \A h \in 1..(i - 1) : k \notin offers(h))
                => \E n \in 1..Len(tbl) : tbl[n].path = listing[i].name
             /\ (allowed(i) /\ stem_to_title(PathStem(listing[i].name)).kind = "None")
                => HasKey(tbl, Lower(PathStem(listing[i].name)))

\* two files share a key, and each has a key of the table mapped to it
C8_Witness ==
    /\ pc = "built"
    /\ Len(listing) = 2
    /\ \E a \in Range(OfferedKeys(PathStem(listing[1].name))) :
       \E b \in Range(OfferedKeys(PathStem(listing[2].name))) :
          a.key = b.key /\ HasKey(title_to_path, a.key)
    /\ \A i \in 1..2 :
          \E n \in 1..Len(title_to_path) : title_to_path[n].path = listing[i].name

\* C9: every value of the table is an entry of the directory that is no
\* sub-directory and whose extension, lower-cased, is an allowed one.
C9_ExtensionFilter ==
    \A n \in 1..Len(title_to_path) :
        \E i \in 1..Len(listing) :
            /\ listing[i].name = title_to_path[n].path
            /\ ~listing[i].is_dir
            /\ Lower(PathSuffix(listing[i].name)) \in AllowedExts

\* a sub-directory named like an image and a file with an upper-case
\* extension have been scanned: only the file is in the table
C9_Witness ==
    /\ pc = "built"
    /\ listing = <<SubJpgDir, ABUpperPng>>
    /\ title_to_path # <<>>
    /\ \A n \in 1..Len(title_to_path) : title_to_path[n].path = ABUpperPng.name

\* C11: a title that is None, empty or whitespace only gets no-match from
\* every table.
C11_BlankTitleNoMatch ==
    (/\ pc = "found"
     /\ \/ title.kind = "None"
        \/ \A i \in 1..Len(title.text) : IsSpace(title.text[i]))
    => result = None

\* a title of one space has been looked up in a table with keys
C11_Witness ==
    /\ pc = "found"
    /\ title = Str(<<Space>>)
    /\ title_to_path # <<>>
    /\ result = None

\* C12: once built, the table is the one build_title_to_file_map returned
\* (keys, values and order) whatever lookups follow, and a lookup of the
\* title just looked up gives the same result.
C12_TableReadOnly ==
    /\ [](pc \in {"built", "found"}
            => title_to_path = build_title_to_file_map(dirKind, listing))
    /\ [][(pc \in {"built", "found"})
            => ((title_to_path' = title_to_path)
                /\ ((pc = "found" /\ title' = title) => (result' = result)))]_vars

\* a lookup has hit in the prefix pass and the table is as it was built
C12_Witness ==
    /\ pc = "found"
    /\ via = 4
    /\ result # None
    /\ Len(title_to_path) > 1
    /\ title_to_path = build_title_to_file_map(dirKind, listing)

\* C15: for a stem that is not decoded, the loop body offers exactly the
\* slug of T, the lower-cased T, the compact key of T (lower-cased, digits
\* normalized, spaces and underscores removed) and the lower-cased stem,
\* where T is the stem with its underscores replaced by spaces.
C15_PlainStemKeys ==
    (/\ pc = "register"
     /\ stem_to_title(PathStem(listing[idx].name)).kind = "None"
     /\ Len(pending) = 4)
    => LET stem == PathStem(listing[idx].name)
           T == ReplaceChar(stem, Underscore, Space)
       IN  [i \in 1..4 |-> pending[i].key] =
              << slug(T),
                 Lower(T),
                 RemoveChar(RemoveChar(Lower(normalize_digits(T)), Space), Underscore),
                 Lower(stem) >>

\* C16: when the only file of the directory is named by the encoded stem
\* of a non-blank title and has an allowed extension, the lookup of that
\* title returns the file.
C16_EncodedFindable ==
    (/\ pc = "found"
     /\ dirKind = "dir"
     /\ Len(listing) = 1
     /\ title.kind = "str"
     /\ \E i \in 1..Len(title.text) : ~IsSpace(title.text[i]))
    => LET name == listing[1].name
       IN  (/\ ~listing[1].is_dir
            /\ Lower(PathSuffix(name)) \in AllowedExts
            /\ title_to_encoded_stem(title.text) = Str(PathStem(name)))
           => result = Str(Rel(name))

C14_SlugSteps ==
    cpc = "slugged" =>
        LET trimmed == normalize_digits(Strip(ctitle))
            spaced == [i \in 1..Len(trimmed) |->
                          IF IsAlnum(trimmed[i]) \/ trimmed[i] = Underscore
                             \/ IsSpace(trimmed[i])
                          THEN trimmed[i] ELSE Space]
        IN  cout = Str(Lower(StripUnderscores(SubWsRuns(spaced))))

\* C13 (checked under SpecPipeline): a run of run_pipeline that got rows
\* and an images directory writes every input row to the export, in order,
\* and, when it returns, has sent every row in exactly one upsert batch of
\* at most batch_size rows, in input order, whether or not the song of the
\* row was matched; a row whose song has no match, or whose upload failed,
\* has the image address "", and no upload is made for an unmatched song.
C13_NoMatchNotFailure ==
    LET tbl == build_title_to_file_map(imagesKind, imagesListing)
        Unmatched(s) == find_image_for_title(Str(s), tbl).res = None
        UploadFailed(s) ==
            \E k \in 1..Len(uploads) : uploads[k].song = s /\ ~uploads[k].ok
    IN  /\ ppc \in {"upsert", "done"} =>
              /\ Len(export_rows) = Len(rows)
              /\ \A i \in 1..Len(rows) :
                    /\ export_rows[i].song = Strip(rows[i].song)
                    /\ export_rows[i].artist = rows[i].artist
                    /\ (Unmatched(Strip(rows[i].song)) \/ UploadFailed(Strip(rows[i].song)))
                          => export_rows[i].imageUrl = <<>>
        /\ \A k \in 1..Len(uploads) : ~Unmatched(uploads[k].song)
        /\ ppc = "done" =>
              /\ Concat(batches) =
                    [i \in 1..Len(rows) |->
                        [imageUrl |-> export_rows[i].imageUrl,
                         title |-> Strip(rows[i].song),
                         artist |-> rows[i].artist]]
              /\ \A b \in 1..Len(batches) :
                    Len(batches[b]) >= 1 /\ Len(batches[b]) <= batch_size

\* a returned run of more than one batch with a matched row, a row without
\* a match and a row whose upload failed
C13_Witness ==
    /\ ppc = "done"
    /\ Len(batches) > 1
    /\ Len(rows) > batch_size
    /\ \E i \in 1..Len(rows) :
          /\ rows[i].song = SongZZ
          /\ export_rows[i].imageUrl = <<>>
          /\ \E b \in 1..Len(batches) : \E j \in 1..Len(batches[b]) :
                batches[b][j].artist = i /\ batches[b][j].imageUrl = <<>>
    /\ \E i \in 1..Len(rows) : export_rows[i].imageUrl # <<>>
    /\ \E k \in 1..Len(uploads) :
          /\ ~uploads[k].ok
          /\ \E i \in 1..Len(rows) :
                Strip(rows[i].song) = uploads[k].song /\ export_rows[i].imageUrl = <<>>

\* C17 (checked under SpecPipeline): when the bucket held none of the
\* storage names of the run at its start, every song of song_to_image_url
\* has the address of an object whose bytes are the song's own matched
\* file, and two songs matched to different files have different storage
\* names and addresses.
C17_StorageNamesOwn ==
    LET NameOf(i) == storage_name(song_to_path[i].song, song_to_path[i].path)
        Fresh == \A o \in bucket : \A i \in 1..Len(song_to_path) :
                    o.name = NameOf(i) => ~o.pre
    IN  Fresh =>
          /\ \A k \in 1..Len(song_to_image_url) :
                \E i \in 1..Len(song_to_path) : \E o \in bucket :
                    /\ song_to_path[i].song = song_to_image_url[k].song
                    /\ song_to_image_url[k].url = get_public_url(o.name)
                    /\ o.bytes = song_to_path[i].path
          /\ \A i, j \in 1..Len(song_to_path) :
                (song_to_path[i].song # song_to_path[j].song
                 /\ song_to_path[i].path # song_to_path[j].path)
                    => /\ NameOf(i) # NameOf(j)
                       /\ UrlOrEmpty(song_to_image_url, song_to_path[i].song)
                             # UrlOrEmpty(song_to_image_url, song_to_path[j].song)
                          \/ ~HasSong(song_to_image_url, song_to_path[i].song)
                          \/ ~HasSong(song_to_image_url, song_to_path[j].song)

=============================================================================
